---- MODULE Spec2Model ----
\* Model of kiauh/extensions/tmc_autotune: the install / update / remove
\* orchestration of TmcAutotuneExtension and its stop-instances interlock.
EXTENDS Integers, Sequences, FiniteSets, TLC

\* ---------------------------------------------------------------- bounds
MaxKl == 2
MaxMr == 1

\* ------------------------------------------------------------- constants
TMCA_REPO == "https://github.com/andrewmcgr/klipper_tmc_autotune"
TMCA_DIR == "~/klipper_tmc_autotune"
KLIPPER_DIR == "~/klipper"
TMCA_MOONRAKER_UPDATER_NAME == "update_manager klipper_tmc_autotune"
INCLUDE_SECTION == "include autotune_tmc.cfg"
\* variant: the data file is left out of the list
Artifacts_without_database == <<"autotune_tmc.py", "motor_constants.py">>

\* the three artifacts linked into KLIPPER_EXTRAS, in the order of the code
Artifacts == <<"autotune_tmc.py", "motor_constants.py", "motor_database.cfg">>
\* the interpreter KIAUH itself runs on
PythonVersion == <<3, 8>>

NoSection == <<>>
\* options written by _add_moonraker_update_manager_section
TmcaOptions ==
    << <<"type", "git_repo">>, <<"channel", "dev">>, <<"path", TMCA_DIR>>,
       <<"origin", TMCA_REPO>>, <<"managed_services", "klipper">>,
       <<"primary_branch", "main">> >>
\* a section of that name from another installer: the same options and the
\* install_script one that the code leaves out
OtherOptions == TmcaOptions \o << <<"install_script", "install.sh">> >>

\* ----------------------------------------------------------------- state
VARIABLES
    klippers,       \* what get_instances(Klipper) returns (a list)
    moonrakers,     \* what get_instances(Moonraker) returns (a list)
    klipperDir,     \* KLIPPER_DIR exists
    tmcaDir,        \* TMCA_DIR exists
    links,          \* artifacts present in KLIPPER_EXTRAS
    exampleCfg,     \* per Klipper instance: content of cfg_dir/autotune_tmc.cfg
    includeCnt,     \* per Klipper instance: number of include sections in cfg_file
    mrSection,      \* per Moonraker instance: options of the update_manager section
    stopped,        \* Klipper instances whose service is stopped
    op,             \* the running public operation
    pc,             \* position inside it
    outcome,        \* how the last operation ended
    log,            \* collaborator calls, prompts and messages of this run, in order
    kl_instances,
    mr_instances,
    add_moonraker_update_section,
    create_example_config,
    backup_before_update,
    idx             \* loop position

env == <<klippers, moonrakers>>
fs == <<klipperDir, tmcaDir, links, exampleCfg, includeCnt, mrSection>>
locals == <<kl_instances, mr_instances, add_moonraker_update_section,
            create_example_config, backup_before_update, idx>>
vars == <<klippers, moonrakers, klipperDir, tmcaDir, links, exampleCfg,
          includeCnt, mrSection, stopped, op, pc, outcome, log,
          kl_instances, mr_instances, add_moonraker_update_section,
          create_example_config, backup_before_update, idx>>

\* --------------------------------------------------------------- helpers
Range(s) == {s[i] : i \in DOMAIN s}
List(n) == [i \in 1..n |-> i]

\* one entry of the run's log: a Logger message or dialog, a get_confirm
\* prompt with its answer, or a call of a collaborator on a set of instances
Ev(kind, name, insts, ans) ==
    [kind |-> kind, name |-> name, insts |-> insts, ans |-> ans]
Msg(name) == Ev("msg", name, {}, TRUE)
MsgFor(name, k) == Ev("msg", name, {k}, TRUE)
Dialog(name) == Ev("dialog", name, {}, TRUE)
Confirm(name, ans) == Ev("confirm", name, {}, ans)
Call(name, insts) == Ev("call", name, insts, TRUE)

check_python_version(major, minor) ==
    \/ PythonVersion[1] > major
    \/ PythonVersion[1] = major /\ PythonVersion[2] >= minor

\* variant: only the install directory is looked at
tmca_exists_dironly == tmcaDir

\* installation state as install_extension computes it
tmca_exists == tmcaDir /\ \A i \in DOMAIN Artifacts : Artifacts[i] \in links

Goto(p, l) == pc' = p /\ log' = l /\ outcome' = "running"
Done(out, l) == pc' = "done" /\ log' = l /\ outcome' = out

Begin(o) ==
    /\ pc \in {"idle", "done"}
    /\ op' = o
    /\ kl_instances' = <<>>
    /\ mr_instances' = <<>>
    /\ add_moonraker_update_section' = FALSE
    /\ create_example_config' = FALSE
    /\ backup_before_update' = FALSE
    /\ idx' = 0

\* ------------------------------------------------------------------ Init
Init ==
    /\ \E n \in 0..MaxKl : klippers = List(n)
    /\ \E n \in 0..MaxMr : moonrakers = List(n)
    /\ klipperDir \in BOOLEAN
    /\ tmcaDir \in BOOLEAN
    /\ links \in SUBSET Range(Artifacts)
    /\ (~klipperDir => links = {})
    /\ exampleCfg \in [Range(klippers) -> {"none", "user"}]
    /\ includeCnt \in [Range(klippers) -> 0..1]
    /\ mrSection \in [Range(moonrakers) -> {NoSection, TmcaOptions, OtherOptions}]
    /\ stopped = {}
    /\ op = "none"
    /\ pc = "idle"
    /\ outcome = "none"
    /\ log = <<>>
    /\ kl_instances = <<>>
    /\ mr_instances = <<>>
    /\ add_moonraker_update_section = FALSE
    /\ create_example_config = FALSE
    /\ backup_before_update = FALSE
    /\ idx = 0

\* ----------------------------------------------- InstanceManager (services)
\* InstanceManager.start_all(kl_instances), then the rest of the operation;
\* the call is synchronous and covers the whole list at once
StartAllThen(l, out, after) ==
    /\ stopped' = stopped \ Range(kl_instances)
    /\ Done(out, l \o <<Call("start_all", Range(kl_instances))>> \o after)

\* ---------------------------------------------------- exception handlers
\* variant: the handler reports the error and returns without the restart
install_except_norestart(l) ==
    /\ stopped' = stopped
    /\ Done("exception", l \o <<Msg("Error during Klipper TMC Autotune installation")>>)

install_except(l) ==
    LET l2 == l \o <<Msg("Error during Klipper TMC Autotune installation")>> IN
    IF kl_instances # <<>>
    THEN StartAllThen(l2, "exception", <<>>)
    ELSE stopped' = stopped /\ Done("exception", l2)

update_except(l) ==
    LET l2 == l \o <<Msg("Error during Klipper TMC Autotune update")>> IN
    IF kl_instances # <<>>
    THEN StartAllThen(l2, "exception", <<>>)
    ELSE /\ stopped' = stopped
         /\ Done("exception",
                 l2 \o <<Msg("Klipper TMC Autotune updated successfully.")>>)

remove_except(l) ==
    LET l2 == l \o <<Msg("Unable to remove extension")>> IN
    IF kl_instances # <<>>
    THEN StartAllThen(l2, "exception", <<>>)
    ELSE stopped' = stopped /\ Done("exception", l2)

\* --------------------------------------------------------------- Install
install_extension ==
    /\ Begin("install")
    /\ UNCHANGED <<env, fs, stopped>>
    /\ LET l == <<Msg("Installing Klipper TMC Autotune...")>> IN
       IF ~check_python_version(3, 0)
       THEN Done("precondition",
                 l \o <<Msg("Python 3.x is required. Aborting install.")>>)
       ELSE IF ~klipperDir
       THEN Done("precondition",
                 l \o <<Msg("No Klipper directory found! Unable to install extension.")>>)
       ELSE Goto(IF tmca_exists THEN "i_overwrite" ELSE "i_ask_mr", l)

install_confirm_overwrite ==
    /\ pc = "i_overwrite"
    /\ \E ans \in BOOLEAN :
        LET l == log \o <<Confirm("Extension seems to be installed already. Overwrite?", ans)>> IN
        IF ans
        THEN Goto("i_ask_mr", l)
        ELSE Done("declined", l \o <<Msg("Installation aborted due to user request.")>>)
    /\ UNCHANGED <<env, fs, stopped, op, locals>>

install_ask_moonraker ==
    /\ pc = "i_ask_mr"
    /\ \E ans \in BOOLEAN :
        /\ add_moonraker_update_section' = ans
        /\ Goto("i_ask_cfg",
                log \o <<Confirm("Add Klipper TMC Autotune to Moonraker update manager(s)?", ans)>>)
    /\ UNCHANGED <<env, fs, stopped, op, kl_instances, mr_instances,
                   create_example_config, backup_before_update, idx>>

install_ask_example ==
    /\ pc = "i_ask_cfg"
    /\ \E ans \in BOOLEAN :
        /\ create_example_config' = ans
        /\ Goto("discover",
                log \o <<Confirm("Create an example autotune_tmc.cfg for each instance?", ans)>>)
    /\ UNCHANGED <<env, fs, stopped, op, kl_instances, mr_instances,
                   add_moonraker_update_section, backup_before_update, idx>>

\* ------------------------------------------------------ instance discovery
\* kl_instances = get_instances(Klipper)
get_instances_klipper ==
    /\ pc = "discover"
    /\ kl_instances' = klippers
    /\ Goto("lock", log \o <<Call("get_instances(Klipper)", {})>>)
    /\ UNCHANGED <<env, fs, stopped, op, mr_instances,
                   add_moonraker_update_section, create_example_config,
                   backup_before_update, idx>>

\* ------------------------------------------------- stop-instances interlock
operation_name ==
    CASE op = "install" -> "installation of TMC Autotune"
      [] op = "update" -> "update of TMC Autotune"
      [] op = "remove" -> "removal of TMC Autotune"

\* str.capitalize(): first letter upper case, the rest lower case
capitalize(name) ==
    CASE name = "installation of TMC Autotune" -> "Installation of tmc autotune"
      [] name = "update of TMC Autotune" -> "Update of tmc autotune"
      [] name = "removal of TMC Autotune" -> "Removal of tmc autotune"

\* where each operation continues when the interlock returns True
AfterLock ==
    CASE op = "install" -> "i_clone"
      [] op = "update" -> "u_backup"
      [] op = "remove" -> "r_rmdir"

\* variant: the empty list is not special-cased
_stop_klipper_instances_always_ask ==
    /\ pc = "lock"
    /\ Goto("lock_confirm",
            log \o <<Dialog("Do NOT continue if there are ongoing prints running")>>)
    /\ UNCHANGED <<env, fs, stopped, op, locals>>

_stop_klipper_instances_interactively ==
    /\ pc = "lock"
    /\ IF kl_instances = <<>>
       THEN Goto(AfterLock,
                 log \o <<Msg("No instances found, skipping instance stopping.")>>)
       ELSE Goto("lock_confirm",
                 log \o <<Dialog("Do NOT continue if there are ongoing prints running")>>)
    /\ UNCHANGED <<env, fs, stopped, op, locals>>

\* variant: the instances are stopped before the answer is looked at
stop_klipper_confirm_stopfirst ==
    /\ pc = "lock_confirm"
    /\ \E stop_klipper \in BOOLEAN :
        LET l == log \o <<Call("stop_all", Range(kl_instances)),
                          Confirm("Stop Klipper now and proceed with " \o operation_name \o "?", stop_klipper)>> IN
        /\ stopped' = stopped \cup Range(kl_instances)
        /\ IF stop_klipper
           THEN Goto(AfterLock, l)
           ELSE Done("declined",
                     l \o <<Msg(capitalize(operation_name) \o " aborted due to user request.")>>)
    /\ UNCHANGED <<env, fs, op, locals>>

\* stop_klipper = get_confirm(...) and the branch on it
stop_klipper_confirm ==
    /\ pc = "lock_confirm"
    /\ \E stop_klipper \in BOOLEAN :
        LET l == log \o <<Confirm("Stop Klipper now and proceed with " \o operation_name \o "?", stop_klipper)>> IN
        IF stop_klipper
        THEN /\ stopped' = stopped \cup Range(kl_instances)
             /\ Goto(AfterLock, l \o <<Call("stop_all", Range(kl_instances))>>)
        ELSE /\ stopped' = stopped
             /\ Done("declined",
                     l \o <<Msg(capitalize(operation_name) \o " aborted due to user request.")>>)
    /\ UNCHANGED <<env, fs, op, locals>>

\* ------------------------------------------------- Install, mutation phase
\* git_clone_wrapper(TMCA_REPO, TMCA_DIR, force=True)
install_clone ==
    /\ pc = "i_clone"
    /\ LET l == log \o <<Call("git_clone_wrapper", {})>> IN
       \E fail \in BOOLEAN :
        IF fail
        THEN /\ tmcaDir' \in {tmcaDir, FALSE}
             /\ install_except(l)
             /\ idx' = idx
        ELSE /\ tmcaDir' = TRUE
             /\ stopped' = stopped
             /\ idx' = 1
             /\ Goto("i_link",
                     l \o <<Msg("Creating symlinks in Klipper extras directory...")>>)
    /\ UNCHANGED <<env, klipperDir, links, exampleCfg, includeCnt, mrSection,
                   op, kl_instances, mr_instances,
                   add_moonraker_update_section, create_example_config,
                   backup_before_update>>

\* the three create_symlink calls, one per step
install_create_symlink ==
    /\ pc = "i_link"
    /\ LET l == log \o <<Call("create_symlink " \o TMCA_DIR \o "/" \o Artifacts[idx], {})>> IN
       \E fail \in BOOLEAN :
        IF fail
        THEN /\ links' = links
             /\ idx' = idx
             /\ install_except(l)
        ELSE /\ links' = links \cup {Artifacts[idx]}
             /\ stopped' = stopped
             /\ IF idx < Len(Artifacts)
                THEN idx' = idx + 1 /\ Goto("i_link", l)
                ELSE /\ idx' = 1
                     /\ Goto("i_cfg",
                             l \o <<Msg("Symlinks created successfully for all instances.")>>)
    /\ UNCHANGED <<env, klipperDir, tmcaDir, exampleCfg, includeCnt, mrSection,
                   op, kl_instances, mr_instances,
                   add_moonraker_update_section, create_example_config,
                   backup_before_update>>

\* position after the copy loop of _install_example_cfg has handled entry i
AfterCopy(i) == IF i < Len(kl_instances) THEN "i_copy" ELSE "i_backup_cfg"
\* position after the include loop has handled entry i
AfterInclude(i) == IF i < Len(kl_instances) THEN "i_include" ELSE "i_mr"

\* if create_example_config: ... else: ...
install_example_branch ==
    /\ pc = "i_cfg"
    /\ IF create_example_config
       THEN Goto(AfterCopy(0), log)
       ELSE Goto("i_mr",
                 log \o <<Msg("Skipping example config creation as per user request."),
                          Msg("Make sure to create and include an autotune_tmc.cfg")>>)
    /\ UNCHANGED <<env, fs, stopped, op, locals>>

\* variant: the copy is made without looking for an existing file
example_cfg_exists_unchecked(k) == FALSE

\* check_file_exist(cfg_dir.joinpath("autotune_tmc.cfg")) for instance k
example_cfg_exists(k) == exampleCfg[k] # "none"

\* variant: an OSError of the copy is not caught inside the loop
_install_example_cfg_copy_raising ==
    /\ pc = "i_copy"
    /\ LET k == kl_instances[idx]
           l == log \o <<MsgFor("Create autotune_tmc.cfg in cfg_dir", k)>> IN
       IF example_cfg_exists(k)
       THEN /\ exampleCfg' = exampleCfg
            /\ stopped' = stopped
            /\ idx' = IF idx < Len(kl_instances) THEN idx + 1 ELSE 1
            /\ Goto(AfterCopy(idx), l \o <<MsgFor("File already exists! Skipping ...", k)>>)
       ELSE \E oserror \in BOOLEAN :
            LET l2 == l \o <<Call("shutil.copy", {k})>> IN
            IF oserror
            THEN /\ exampleCfg' = exampleCfg
                 /\ idx' = idx
                 /\ install_except(l2)
            ELSE /\ exampleCfg' = [exampleCfg EXCEPT ![k] = "example"]
                 /\ stopped' = stopped
                 /\ idx' = IF idx < Len(kl_instances) THEN idx + 1 ELSE 1
                 /\ Goto(AfterCopy(idx), l2 \o <<Msg("Done!")>>)
    /\ UNCHANGED <<env, klipperDir, tmcaDir, links, includeCnt, mrSection,
                   op, kl_instances, mr_instances,
                   add_moonraker_update_section, create_example_config,
                   backup_before_update>>

\* one iteration of the copy loop of _install_example_cfg
_install_example_cfg_copy ==
    /\ pc = "i_copy"
    /\ LET k == kl_instances[idx]
           l == log \o <<MsgFor("Create autotune_tmc.cfg in cfg_dir", k)>> IN
       IF example_cfg_exists(k)
       THEN /\ exampleCfg' = exampleCfg
            /\ Goto(AfterCopy(idx), l \o <<MsgFor("File already exists! Skipping ...", k)>>)
       ELSE \E oserror \in BOOLEAN :
            LET l2 == l \o <<Call("shutil.copy", {k})>> IN
            IF oserror
            THEN /\ exampleCfg' = exampleCfg
                 /\ Goto(AfterCopy(idx), l2 \o <<MsgFor("Unable to create example config", k)>>)
            ELSE /\ exampleCfg' = [exampleCfg EXCEPT ![k] = "example"]
                 /\ Goto(AfterCopy(idx), l2 \o <<Msg("Done!")>>)
    /\ idx' = IF idx < Len(kl_instances) THEN idx + 1 ELSE 1
    /\ UNCHANGED <<env, klipperDir, tmcaDir, links, includeCnt, mrSection,
                   stopped, op, kl_instances, mr_instances,
                   add_moonraker_update_section, create_example_config,
                   backup_before_update>>

\* BackupService().backup_printer_cfg() inside _install_example_cfg
_install_example_cfg_backup ==
    /\ pc = "i_backup_cfg"
    /\ LET l == log \o <<Call("backup_printer_cfg", {})>> IN
       \E fail \in BOOLEAN :
        IF fail
        THEN install_except(l)
        ELSE stopped' = stopped /\ Goto(AfterInclude(0), l)
    /\ UNCHANGED <<env, fs, op, locals>>

\* variant: the section is added without looking for an existing one
has_section_unchecked(k) == FALSE

\* scp.has_section("include autotune_tmc.cfg") on the cfg_file of instance k
has_section(k) == includeCnt[k] > 0

\* one iteration of the include loop of _install_example_cfg
_install_example_cfg_include ==
    /\ pc = "i_include"
    /\ LET k == kl_instances[idx]
           l == log \o <<MsgFor("Include autotune_tmc.cfg in cfg_file", k)>> IN
       \E fail \in BOOLEAN :
        IF fail
        THEN /\ includeCnt' = includeCnt
             /\ idx' = idx
             /\ install_except(l)
        ELSE /\ stopped' = stopped
             /\ idx' = IF idx < Len(kl_instances) THEN idx + 1 ELSE 1
             /\ IF has_section(k)
                THEN /\ includeCnt' = includeCnt
                     /\ Goto(AfterInclude(idx),
                             l \o <<MsgFor("Section already defined! Skipping ...", k)>>)
                ELSE /\ includeCnt' = [includeCnt EXCEPT ![k] = @ + 1]
                     /\ Goto(AfterInclude(idx),
                             l \o <<Call("write_file", {k}), Msg("Done!")>>)
    /\ UNCHANGED <<env, klipperDir, tmcaDir, links, exampleCfg, mrSection,
                   op, kl_instances, mr_instances,
                   add_moonraker_update_section, create_example_config,
                   backup_before_update>>

\* if add_moonraker_update_section: mr_instances = get_instances(Moonraker)
\* and the entry of _add_moonraker_update_manager_section; else: ...
install_moonraker_branch ==
    /\ pc = "i_mr"
    /\ IF add_moonraker_update_section
       THEN /\ mr_instances' = moonrakers
            /\ LET l == log \o <<Call("get_instances(Moonraker)", {})>> IN
               IF moonrakers = <<>>
               THEN Goto("i_mr_confirm", l \o <<Dialog("Moonraker not found!")>>)
               ELSE Goto("i_mr_backup", l)
       ELSE /\ mr_instances' = mr_instances
            /\ Goto("i_finish",
                    log \o <<Msg("Skipping update section creation as per user request."),
                             Msg("Make sure to create the corresponding section in your moonraker.conf")>>)
    /\ UNCHANGED <<env, fs, stopped, op, kl_instances,
                   add_moonraker_update_section, create_example_config,
                   backup_before_update, idx>>

\* if not get_confirm("Continue Klipper TMC Autotune installation?"): return
_add_moonraker_confirm_continue ==
    /\ pc = "i_mr_confirm"
    /\ \E ans \in BOOLEAN :
        LET l == log \o <<Confirm("Continue Klipper TMC Autotune installation?", ans)>> IN
        IF ans
        THEN Goto("i_mr_backup", l)
        ELSE Goto("i_finish", l \o <<Msg("Installation aborted due to user request.")>>)
    /\ UNCHANGED <<env, fs, stopped, op, locals>>

\* BackupService().backup_moonraker_conf()
_add_moonraker_backup ==
    /\ pc = "i_mr_backup"
    /\ LET l == log \o <<Call("backup_moonraker_conf", {})>> IN
       \E fail \in BOOLEAN :
        IF fail
        THEN install_except(l)
        ELSE stopped' = stopped /\ Goto("i_mr_add", l)
    /\ UNCHANGED <<env, fs, op, locals>>

\* utils.config_utils.add_config_section: no-op where the section exists
add_config_section(options, instances, cfg) ==
    [m \in DOMAIN cfg |->
        IF m \in Range(instances) /\ cfg[m] = NoSection THEN options ELSE cfg[m]]

\* utils.config_utils.remove_config_section on the Moonraker configs
remove_config_section(instances, cfg) ==
    [m \in DOMAIN cfg |-> IF m \in Range(instances) THEN NoSection ELSE cfg[m]]

\* add_config_section(section=TMCA_MOONRAKER_UPDATER_NAME, ...)
_add_moonraker_add_section ==
    /\ pc = "i_mr_add"
    /\ LET l == log \o <<Call("add_config_section " \o TMCA_MOONRAKER_UPDATER_NAME,
                              Range(mr_instances))>> IN
       \E fail \in BOOLEAN :
        IF fail
        THEN /\ mrSection' = mrSection
             /\ install_except(l)
        ELSE /\ mrSection' = add_config_section(TmcaOptions, mr_instances, mrSection)
             /\ stopped' = stopped
             /\ Goto("i_mr_restart", l)
    /\ UNCHANGED <<env, klipperDir, tmcaDir, links, exampleCfg, includeCnt,
                   op, locals>>

\* variant: the section is written and Moonraker is not restarted
_add_moonraker_no_restart ==
    /\ pc = "i_mr_restart"
    /\ stopped' = stopped
    /\ Goto("i_finish",
            log \o <<Msg("Klipper TMC Autotune successfully added to Moonraker update manager(s)!")>>)
    /\ UNCHANGED <<env, fs, op, locals>>

\* InstanceManager.restart_all(mr_instances)
_add_moonraker_restart ==
    /\ pc = "i_mr_restart"
    /\ LET l == log \o <<Call("restart_all", Range(mr_instances))>> IN
       \E fail \in BOOLEAN :
        IF fail
        THEN install_except(l)
        ELSE /\ stopped' = stopped
             /\ Goto("i_finish",
                     l \o <<Msg("Klipper TMC Autotune successfully added to Moonraker update manager(s)!")>>)
    /\ UNCHANGED <<env, fs, op, locals>>

\* after the try block of install_extension
install_finish ==
    /\ pc = "i_finish"
    /\ LET after ==
            (IF create_example_config
             THEN <<Dialog("Basic configuration files were created per instance.")>>
             ELSE <<>>)
            \o <<Msg("Klipper TMC Autotune installed successfully!")>> IN
       IF kl_instances # <<>>
       THEN StartAllThen(log, "success", after)
       ELSE stopped' = stopped /\ Done("success", log \o after)
    /\ UNCHANGED <<env, fs, op, locals>>

\* ---------------------------------------------------------------- Update
\* variant: the backup question is asked before the install directory is checked
update_extension_askfirst ==
    /\ Begin("update")
    /\ UNCHANGED <<env, fs, stopped>>
    /\ \E ans \in BOOLEAN :
        LET l == <<Confirm("Backup Klipper TMC Autotune directory before update?", ans)>> IN
        IF ~tmcaDir
        THEN Done("precondition",
                  l \o <<Msg("Extension does not seem to be installed! Skipping ...")>>)
        ELSE Goto("discover", l)

update_extension ==
    /\ Begin("update")
    /\ UNCHANGED <<env, fs, stopped>>
    /\ IF ~tmcaDir
       THEN Done("precondition",
                 <<Msg("Extension does not seem to be installed! Skipping ...")>>)
       ELSE Goto("u_ask", <<>>)

\* variant: the backup is made as soon as it is confirmed
update_ask_backup_now ==
    /\ pc = "u_ask"
    /\ \E ans \in BOOLEAN :
        /\ backup_before_update' = ans
        /\ Goto("discover",
                log \o <<Confirm("Backup Klipper TMC Autotune directory before update?", ans)>>
                    \o (IF ans THEN <<Call("backup_directory", {})>> ELSE <<>>))
    /\ UNCHANGED <<env, fs, stopped, op, kl_instances, mr_instances,
                   add_moonraker_update_section, create_example_config, idx>>

update_ask_backup ==
    /\ pc = "u_ask"
    /\ \E ans \in BOOLEAN :
        /\ backup_before_update' = ans
        /\ Goto("discover",
                log \o <<Confirm("Backup Klipper TMC Autotune directory before update?", ans)>>)
    /\ UNCHANGED <<env, fs, stopped, op, kl_instances, mr_instances,
                   add_moonraker_update_section, create_example_config, idx>>

\* if backup_before_update: svc.backup_directory(...)
update_backup ==
    /\ pc = "u_backup"
    /\ LET l == log \o <<Msg("Updating Klipper TMC Autotune...")>> IN
       IF backup_before_update
       THEN LET l2 == l \o <<Msg("Backing up Klipper TMC Autotune directory..."),
                             Call("backup_directory", {})>> IN
            \E fail \in BOOLEAN :
             IF fail
             THEN update_except(l2)
             ELSE /\ stopped' = stopped
                  /\ Goto("u_pull", l2 \o <<Msg("Backup completed successfully.")>>)
       ELSE stopped' = stopped /\ Goto("u_pull", l)
    /\ UNCHANGED <<env, fs, op, locals>>

\* variant: the symlinks are made again after the pull
update_pull_relink ==
    /\ pc = "u_pull"
    /\ LET l == log \o <<Call("git_pull_wrapper", {})>> IN
       \E fail \in BOOLEAN :
        IF fail
        THEN links' = links /\ update_except(l)
        ELSE /\ links' = Range(Artifacts)
             /\ stopped' = stopped
             /\ Goto("u_finish", l)
    /\ UNCHANGED <<env, klipperDir, tmcaDir, exampleCfg, includeCnt, mrSection,
                   op, locals>>

\* git_pull_wrapper(TMCA_DIR)
update_pull ==
    /\ pc = "u_pull"
    /\ LET l == log \o <<Call("git_pull_wrapper", {})>> IN
       \E fail \in BOOLEAN :
        IF fail
        THEN update_except(l)
        ELSE stopped' = stopped /\ Goto("u_finish", l)
    /\ UNCHANGED <<env, fs, op, locals>>

\* after the try block of update_extension
update_finish ==
    /\ pc = "u_finish"
    /\ LET after == <<Msg("Klipper TMC Autotune updated successfully.")>> IN
       IF kl_instances # <<>>
       THEN StartAllThen(log, "success", after)
       ELSE stopped' = stopped /\ Done("success", log \o after)
    /\ UNCHANGED <<env, fs, op, locals>>

\* ---------------------------------------------------------------- Remove
\* variant: the install directory is removed before the interlock
remove_extension_rmfirst ==
    /\ Begin("remove")
    /\ UNCHANGED <<env, klipperDir, links, exampleCfg, includeCnt, mrSection, stopped>>
    /\ tmcaDir' = FALSE
    /\ IF ~tmcaDir
       THEN Done("precondition",
                 <<Msg("Extension does not seem to be installed! Skipping ...")>>)
       ELSE Goto("discover", <<Call("run_remove_routines " \o TMCA_DIR, {})>>)

remove_extension ==
    /\ Begin("remove")
    /\ UNCHANGED <<env, fs, stopped>>
    /\ IF ~tmcaDir
       THEN Done("precondition",
                 <<Msg("Extension does not seem to be installed! Skipping ...")>>)
       ELSE Goto("discover", <<>>)

\* run_remove_routines(TMCA_DIR)
remove_install_dir ==
    /\ pc = "r_rmdir"
    /\ LET l == log \o <<Msg("Removing Klipper TMC Autotune extension ..."),
                         Call("run_remove_routines " \o TMCA_DIR, {})>> IN
       \E fail \in BOOLEAN :
        IF fail /\ tmcaDir
        THEN /\ tmcaDir' = tmcaDir
             /\ idx' = idx
             /\ remove_except(l)
        ELSE /\ tmcaDir' = FALSE
             /\ idx' = 1
             /\ stopped' = stopped
             /\ Goto("r_unlink",
                     l \o <<Msg("Removing symlinks from Klipper extras directory ...")>>)
    /\ UNCHANGED <<env, klipperDir, links, exampleCfg, includeCnt, mrSection,
                   op, kl_instances, mr_instances,
                   add_moonraker_update_section, create_example_config,
                   backup_before_update>>

\* variant: a missing symlink ends the removal of the symlinks
remove_symlink_until_missing ==
    /\ pc = "r_unlink"
    /\ LET l == log \o <<Call("run_remove_routines " \o Artifacts[idx], {})>> IN
       \E fail \in BOOLEAN :
        IF fail /\ Artifacts[idx] \in links
        THEN /\ links' = links
             /\ idx' = idx
             /\ remove_except(l)
        ELSE /\ links' = links \ {Artifacts[idx]}
             /\ stopped' = stopped
             /\ IF idx < Len(Artifacts) /\ Artifacts[idx] \in links
                THEN idx' = idx + 1 /\ Goto("r_unlink", l)
                ELSE idx' = 1 /\ Goto("r_mr", l)
    /\ UNCHANGED <<env, klipperDir, tmcaDir, exampleCfg, includeCnt, mrSection,
                   op, kl_instances, mr_instances,
                   add_moonraker_update_section, create_example_config,
                   backup_before_update>>

\* the three run_remove_routines(KLIPPER_EXTRAS.joinpath(...)) calls
remove_symlink ==
    /\ pc = "r_unlink"
    /\ LET l == log \o <<Call("run_remove_routines " \o Artifacts[idx], {})>> IN
       \E fail \in BOOLEAN :
        IF fail /\ Artifacts[idx] \in links
        THEN /\ links' = links
             /\ idx' = idx
             /\ remove_except(l)
        ELSE /\ links' = links \ {Artifacts[idx]}
             /\ stopped' = stopped
             /\ IF idx < Len(Artifacts)
                THEN idx' = idx + 1 /\ Goto("r_unlink", l)
                ELSE idx' = 1 /\ Goto("r_mr", l)
    /\ UNCHANGED <<env, klipperDir, tmcaDir, exampleCfg, includeCnt, mrSection,
                   op, kl_instances, mr_instances,
                   add_moonraker_update_section, create_example_config,
                   backup_before_update>>

\* variant: the update-manager step is taken whatever the discovery returns
remove_moonraker_always ==
    /\ pc = "r_mr"
    /\ mr_instances' = moonrakers
    /\ Goto("r_mr_backup",
            log \o <<Call("get_instances(Moonraker)", {}),
                     Msg("Removing Klipper TMC Autotune from update manager ...")>>)
    /\ UNCHANGED <<env, fs, stopped, op, kl_instances,
                   add_moonraker_update_section, create_example_config,
                   backup_before_update, idx>>

\* mr_instances = get_instances(Moonraker); if mr_instances: ...
remove_moonraker_branch ==
    /\ pc = "r_mr"
    /\ mr_instances' = moonrakers
    /\ LET l == log \o <<Call("get_instances(Moonraker)", {})>> IN
       IF moonrakers # <<>>
       THEN Goto("r_mr_backup",
                 l \o <<Msg("Removing Klipper TMC Autotune from update manager ...")>>)
       ELSE Goto("r_backup_cfg", l)
    /\ UNCHANGED <<env, fs, stopped, op, kl_instances,
                   add_moonraker_update_section, create_example_config,
                   backup_before_update, idx>>

remove_moonraker_backup ==
    /\ pc = "r_mr_backup"
    /\ LET l == log \o <<Call("backup_moonraker_conf", {})>> IN
       \E fail \in BOOLEAN :
        IF fail
        THEN remove_except(l)
        ELSE stopped' = stopped /\ Goto("r_mr_remove", l)
    /\ UNCHANGED <<env, fs, op, locals>>

\* remove_config_section("update_manager klipper_tmc_autotune", mr_instances)
remove_moonraker_section ==
    /\ pc = "r_mr_remove"
    /\ LET l == log \o <<Call("remove_config_section " \o TMCA_MOONRAKER_UPDATER_NAME,
                              Range(mr_instances))>> IN
       \E fail \in BOOLEAN :
        IF fail
        THEN /\ mrSection' = mrSection
             /\ remove_except(l)
        ELSE /\ mrSection' = remove_config_section(mr_instances, mrSection)
             /\ stopped' = stopped
             /\ Goto("r_backup_cfg",
                     l \o <<Msg("Klipper TMC Autotune successfully removed from update manager!")>>)
    /\ UNCHANGED <<env, klipperDir, tmcaDir, links, exampleCfg, includeCnt,
                   op, locals>>

\* BackupService().backup_printer_cfg() in remove_extension
remove_backup_printer_cfg ==
    /\ pc = "r_backup_cfg"
    /\ LET l == log \o <<Msg("Removing include from printer.cfg files ..."),
                         Call("backup_printer_cfg", {})>> IN
       \E fail \in BOOLEAN :
        IF fail
        THEN remove_except(l)
        ELSE stopped' = stopped /\ Goto("r_rm_include", l)
    /\ UNCHANGED <<env, fs, op, locals>>

\* remove_config_section("include autotune_tmc.cfg", kl_instances)
remove_include_section ==
    /\ pc = "r_rm_include"
    /\ LET l == log \o <<Call("remove_config_section " \o INCLUDE_SECTION,
                              Range(kl_instances))>> IN
       \E fail \in BOOLEAN :
        IF fail
        THEN /\ includeCnt' = includeCnt
             /\ remove_except(l)
        ELSE /\ includeCnt' = [k \in DOMAIN includeCnt |->
                                 IF k \in Range(kl_instances) THEN 0 ELSE includeCnt[k]]
             /\ stopped' = stopped
             /\ Goto("r_finish",
                     l \o <<Dialog("Manual edits to 'printer.cfg' may be required")>>)
    /\ UNCHANGED <<env, klipperDir, tmcaDir, links, exampleCfg, mrSection,
                   op, locals>>

\* variant: success is reported without the restart
remove_finish_norestart ==
    /\ pc = "r_finish"
    /\ stopped' = stopped
    /\ Done("success", log \o <<Msg("Klipper TMC Autotune removed successfully.")>>)
    /\ UNCHANGED <<env, fs, op, locals>>

\* after the try block of remove_extension
remove_finish ==
    /\ pc = "r_finish"
    /\ LET after == <<Msg("Klipper TMC Autotune removed successfully.")>> IN
       IF kl_instances # <<>>
       THEN StartAllThen(log, "success", after)
       ELSE stopped' = stopped /\ Done("success", log \o after)
    /\ UNCHANGED <<env, fs, op, locals>>

Next ==
    \/ install_extension
    \/ install_confirm_overwrite
    \/ install_ask_moonraker
    \/ install_ask_example
    \/ get_instances_klipper
    \/ _stop_klipper_instances_interactively
    \/ stop_klipper_confirm
    \/ install_clone
    \/ install_create_symlink
    \/ install_example_branch
    \/ _install_example_cfg_copy
    \/ _install_example_cfg_backup
    \/ _install_example_cfg_include
    \/ install_moonraker_branch
    \/ _add_moonraker_confirm_continue
    \/ _add_moonraker_backup
    \/ _add_moonraker_add_section
    \/ _add_moonraker_restart
    \/ install_finish
    \/ update_extension
    \/ update_ask_backup
    \/ update_backup
    \/ update_pull
    \/ update_finish
    \/ remove_extension
    \/ remove_install_dir
    \/ remove_symlink
    \/ remove_moonraker_branch
    \/ remove_moonraker_backup
    \/ remove_moonraker_section
    \/ remove_backup_printer_cfg
    \/ remove_include_section
    \/ remove_finish

Spec == Init /\ [][Next]_vars

\* ================================================================ claims
IsCall(e, name) == e.kind = "call" /\ e.name = name
Has(e) == \E i \in DOMAIN log : log[i] = e
ErrorMsgs ==
    {Msg("Error during Klipper TMC Autotune installation"),
     Msg("Error during Klipper TMC Autotune update"),
     Msg("Unable to remove extension")}
\* an exception of the mutation phase reached the operation's handler
Raised == \E i \in DOMAIN log : log[i] \in ErrorMsgs
Returned == {"success", "precondition", "declined", "exception"}
\* positions of an operation before its try block
PrePhase == {"i_overwrite", "i_ask_mr", "i_ask_cfg", "discover", "lock",
             "lock_confirm", "u_ask"}
OnlyDiscoveryCalls(l) ==
    \A i \in DOMAIN l : l[i].kind = "call" => l[i].name = "get_instances(Klipper)"

\* C1: in each of Install, Update and Remove, once the interlock has stopped
\* a non-empty set of Klipper instances and a step of the mutation phase has
\* raised, start_all is called after the stop_all, and on exactly that set.
C1_RestartAfterException ==
    (pc = "done" /\ Raised) =>
        \A i \in DOMAIN log :
            (IsCall(log[i], "stop_all") /\ log[i].insts # {}) =>
                /\ \E j \in (i + 1)..Len(log) : log[j] = Call("start_all", log[i].insts)
                /\ \A j \in DOMAIN log :
                        IsCall(log[j], "start_all") => j > i /\ log[j].insts = log[i].insts

C1_Witness ==
    /\ pc = "done" /\ op = "install" /\ outcome = "exception"
    /\ Has(Call("restart_all", {1}))
    /\ Has(Call("stop_all", {1, 2}))
    /\ log[Len(log)] = Call("start_all", {1, 2})

\* C2: when Install, Update or Remove has returned (success, failed
\* precondition, declined prompt or caught exception), every stop_all of the
\* run is followed by a start_all of the same instances, and none of the
\* instances the run stopped is still stopped.
C2_NoInstanceLeftStopped ==
    (pc = "done" /\ outcome \in Returned) =>
        \A i \in DOMAIN log :
            IsCall(log[i], "stop_all") =>
                /\ \E j \in (i + 1)..Len(log) : log[j] = Call("start_all", log[i].insts)
                /\ log[i].insts \cap stopped = {}

C2_Witness ==
    /\ pc = "done" /\ op = "remove" /\ outcome = "success"
    /\ Has(Call("stop_all", {1, 2}))
    /\ stopped = {}

\* C3: when Klipper instances exist and the user declines the interlock's
\* confirmation, the operation returns; no step of the run up to there has
\* changed a file, a config or the set of stopped instances, and the run has
\* called no collaborator but the instance discovery.
C3_DeclinedInterlockNoMutation ==
    [][ /\ (pc' \in PrePhase \/ (pc' = "done" /\ outcome' = "declined"))
            => UNCHANGED <<fs, stopped>>
        /\ (/\ pc = "lock_confirm"
            /\ \E i \in (Len(log) + 1)..Len(log') :
                    log'[i].kind = "confirm" /\ ~log'[i].ans)
            => /\ pc' = "done" /\ outcome' = "declined"
               /\ OnlyDiscoveryCalls(log') ]_vars

C3_Witness ==
    /\ pc = "done" /\ outcome = "declined" /\ op = "update"
    /\ kl_instances = <<1, 2>>
    /\ Len(log) >= 2 /\ log[Len(log) - 1].kind = "confirm" /\ ~log[Len(log) - 1].ans
    /\ log[Len(log)] = Msg("Update of tmc autotune aborted due to user request.")

\* the precondition of operation o does not hold
PreconditionFails(o) ==
    \/ o = "install" /\ ~klipperDir
    \/ o \in {"update", "remove"} /\ ~tmcaDir

\* C4 as stated: an operation whose precondition check fails returns after
\* one message, with no prompt, no discovery, no stop or start and no
\* mutation.
C4_OneMessage ==
    [][ (pc \in {"idle", "done"} /\ PreconditionFails(op')) =>
            /\ pc' = "done" /\ outcome' = "precondition"
            /\ UNCHANGED <<fs, stopped>>
            /\ Len(log') = 1 /\ log'[1].kind = "msg" ]_vars

\* C4 amended: an operation whose precondition check fails returns with no
\* prompt, no discovery, no stop or start and no mutation, after messages
\* only: one for Update and Remove, two for Install (its status line, then
\* the warning).
C4_PreconditionFailure ==
    [][ (pc \in {"idle", "done"} /\ PreconditionFails(op')) =>
            /\ pc' = "done" /\ outcome' = "precondition"
            /\ UNCHANGED <<fs, stopped>>
            /\ \A i \in DOMAIN log' : log'[i].kind = "msg"
            /\ Len(log') = IF op' = "install" THEN 2 ELSE 1 ]_vars

C4_Witness ==
    /\ pc = "done" /\ outcome = "precondition" /\ op = "install"
    /\ ~klipperDir
    /\ log = <<Msg("Installing Klipper TMC Autotune..."),
               Msg("No Klipper directory found! Unable to install extension.")>>

\* installation state of the data model: "absent", "installed" or "partial"
InstallationState ==
    IF ~tmcaDir /\ links = {} THEN "absent"
    ELSE IF tmcaDir /\ links = Range(Artifacts) THEN "installed"
    ELSE "partial"

OverwriteQuestion == "Extension seems to be installed already. Overwrite?"
\* the step answers the overwrite question with no
OverwriteDeclined ==
    /\ pc = "i_overwrite"
    /\ log'[Len(log) + 1] = Confirm(OverwriteQuestion, FALSE)
\* a declined overwrite ends Install with nothing called and nothing changed
DeclinedCleanly ==
    /\ pc' = "done" /\ outcome' = "declined"
    /\ UNCHANGED <<fs, stopped>>
    /\ \A i \in DOMAIN log' : log'[i].kind # "call"

C6_NoPromptAfterStop ==
    op = "install" =>
        \A i, j \in DOMAIN log :
            (IsCall(log[i], "stop_all") /\ j > i) => log[j].kind # "confirm"

\* C7: an Update in which the backup or the pull raised ends without the
\* message "updated successfully", whatever the set of discovered Klipper
\* instances (the empty set included), and with the stopped instances
\* restarted.
C7_UpdateExceptionAborts ==
    (op = "update" /\ pc = "done"
        /\ Has(Msg("Error during Klipper TMC Autotune update"))) =>
        /\ ~Has(Msg("Klipper TMC Autotune updated successfully."))
        /\ \A i \in DOMAIN log :
                IsCall(log[i], "stop_all") =>
                    \E j \in (i + 1)..Len(log) : log[j] = Call("start_all", log[i].insts)

\* C8: an Install that asked to continue without Moonraker and was told no
\* ends aborted: moonraker.conf is neither backed up nor edited, the stopped
\* Klipper instances are restarted, and the run that reports "Installation
\* aborted due to user request." does not report "installed successfully".
C8_DeclineAbortsInstall ==
    (op = "install" /\ pc = "done"
        /\ Has(Confirm("Continue Klipper TMC Autotune installation?", FALSE))) =>
        /\ Has(Dialog("Moonraker not found!"))
        /\ Has(Msg("Installation aborted due to user request."))
        /\ ~Has(Call("backup_moonraker_conf", {}))
        /\ \A i \in DOMAIN log :
                /\ ~IsCall(log[i], "add_config_section " \o TMCA_MOONRAKER_UPDATER_NAME)
                /\ IsCall(log[i], "stop_all") =>
                    \E j \in (i + 1)..Len(log) : log[j] = Call("start_all", log[i].insts)
        /\ ~Has(Msg("Klipper TMC Autotune installed successfully!"))

StopQuestion == "Stop Klipper now and proceed with " \o operation_name \o "?"
\* the interlock of the running operation has returned True
InterlockPassed ==
    /\ pc \notin PrePhase \cup {"idle"}
    /\ pc = "done" => outcome \in {"success", "exception"}

\* C9: the interlock on an empty list shows no dialog, asks nothing, stops
\* nothing and lets the operation go on; on a non-empty list it shows the
\* attention dialog, asks once, calls stop_all on the whole list exactly when
\* the answer is yes and lets the operation go on exactly then. No stop_all
\* happens anywhere else: each one directly follows an accepted confirmation.
C9_Interlock ==
    LET S == Range(kl_instances)
        attention == Dialog("Do NOT continue if there are ongoing prints running")
    IN  op # "none" =>
        /\ \A i \in DOMAIN log :
            IsCall(log[i], "stop_all") =>
                /\ i > 1 /\ log[i - 1] = Confirm(StopQuestion, TRUE)
                /\ log[i].insts = S
        /\ \A i \in DOMAIN log :
            (log[i].kind = "confirm" /\ log[i].name = StopQuestion) =>
                /\ S # {}
                /\ i > 1 /\ log[i - 1] = attention
                /\ i < Len(log)
                /\ log[i].ans =>
                    /\ log[i + 1] = Call("stop_all", S)
                    /\ InterlockPassed
                /\ ~log[i].ans =>
                    /\ i + 1 = Len(log) /\ log[i + 1].kind = "msg"
                    /\ pc = "done" /\ outcome = "declined"
        /\ Cardinality({i \in DOMAIN log :
                            log[i].kind = "confirm" /\ log[i].name = StopQuestion}) <= 1
        /\ pc = "lock_confirm" => (S # {} /\ log[Len(log)] = attention)
        /\ InterlockPassed =>
            IF S = {}
            THEN /\ Has(Msg("No instances found, skipping instance stopping."))
                 /\ ~Has(attention)
                 /\ \A i \in DOMAIN log :
                        /\ ~IsCall(log[i], "stop_all")
                        /\ ~(log[i].kind = "confirm" /\ log[i].name = StopQuestion)
            ELSE /\ Has(attention)
                 /\ Has(Confirm(StopQuestion, TRUE))
                 /\ Has(Call("stop_all", S))

C9_Witness ==
    /\ op = "remove" /\ pc = "r_rmdir"
    /\ kl_instances = <<1, 2>>
    /\ stopped = {1, 2}
    /\ log[Len(log)] = Call("stop_all", {1, 2})
    /\ log[Len(log) - 1] = Confirm(StopQuestion, TRUE)

\* C10: no step of Install changes an autotune_tmc.cfg that exists: a file
\* present before Install has the same content after it, however Install
\* ends.
C10_ExistingExampleCfgKept ==
    [][ op' = "install" =>
            \A k \in DOMAIN exampleCfg :
                exampleCfg[k] # "none" => exampleCfg'[k] = exampleCfg[k] ]_vars

C10_Witness ==
    /\ op = "install" /\ pc = "done" /\ create_example_config
    /\ kl_instances = <<1, 2>>
    /\ exampleCfg[1] = "user"
    /\ exampleCfg[2] = "example"
    /\ Has(MsgFor("File already exists! Skipping ...", 1))
    /\ Has(Call("shutil.copy", {2}))

\* C11: Install never adds the include section to a primary config that
\* holds it and does not write that file; no primary config ever holds the
\* section twice, and after an Install that got through the include loop of
\* the example-config deployment every instance's primary config holds it
\* exactly once.
C11_IncludeSectionOnce ==
    [][ /\ op' = "install" =>
            \A k \in DOMAIN includeCnt :
                includeCnt[k] >= 1 =>
                    /\ includeCnt'[k] = includeCnt[k]
                    /\ \A i \in (Len(log) + 1)..Len(log') :
                            log'[i] # Call("write_file", {k})
        /\ \A k \in DOMAIN includeCnt : includeCnt'[k] <= 1
        /\ (pc = "i_include" /\ pc' = "i_mr") =>
            \A k \in Range(kl_instances) : includeCnt'[k] = 1 ]_vars

C11_Witness ==
    /\ op = "install" /\ pc = "done" /\ outcome = "success"
    /\ Has(Confirm("Extension seems to be installed already. Overwrite?", TRUE))
    /\ kl_instances = <<1, 2>>
    /\ Has(MsgFor("Section already defined! Skipping ...", 1))
    /\ Has(Call("write_file", {2}))
    /\ includeCnt[1] = 1 /\ includeCnt[2] = 1

ThreeSymlinks == {"autotune_tmc.py", "motor_constants.py", "motor_database.cfg"}
\* the calls of Install that create no symlink
OtherInstallCalls ==
    {"get_instances(Klipper)", "stop_all", "git_clone_wrapper", "shutil.copy",
     "backup_printer_cfg", "write_file", "get_instances(Moonraker)",
     "backup_moonraker_conf", "add_config_section " \o TMCA_MOONRAKER_UPDATER_NAME,
     "restart_all", "start_all"}

\* C12: whatever the installation state Install started from (the state a
\* first successful Install leaves included), a successful Install leaves
\* exactly the three symlinks autotune_tmc.py, motor_constants.py and
\* motor_database.cfg in the Klipper extras directory, each created with its
\* target in the install directory, and the install directory present.
C12_InstallSymlinksIdempotent ==
    (op = "install" /\ pc = "done" /\ outcome = "success") =>
        /\ links = ThreeSymlinks
        /\ tmcaDir
        /\ \A a \in ThreeSymlinks :
                Has(Call("create_symlink " \o TMCA_DIR \o "/" \o a, {}))
        /\ \A i \in DOMAIN log :
                (log[i].kind = "call" /\ log[i].name \notin OtherInstallCalls)
                    => \E a \in ThreeSymlinks :
                        log[i].name = "create_symlink " \o TMCA_DIR \o "/" \o a

\* a second Install, run over a complete installation with overwrite confirmed
C12_Witness ==
    /\ op = "install" /\ pc = "done" /\ outcome = "success"
    /\ Has(Confirm("Extension seems to be installed already. Overwrite?", TRUE))
    /\ links = ThreeSymlinks

\* C13: in Remove each of the three removals of a symlink is issued whether
\* or not the ones before it found their symlink: a removal of a missing
\* symlink changes nothing, raises nothing and is followed by the next one,
\* and when the three are through all three were issued, no symlink is left
\* and no error was reported.
C13_RemoveSymlinksIndependent ==
    [][ pc = "r_unlink" =>
            /\ log'[Len(log) + 1] = Call("run_remove_routines " \o Artifacts[idx], {})
            /\ Artifacts[idx] \notin links =>
                /\ links' = links
                /\ pc' = IF idx < 3 THEN "r_unlink" ELSE "r_mr"
                /\ idx < 3 => idx' = idx + 1
            /\ pc' = "r_mr" =>
                /\ links' = {}
                /\ \A a \in ThreeSymlinks : \E i \in DOMAIN log' :
                        log'[i] = Call("run_remove_routines " \o a, {})
                /\ \A i \in DOMAIN log' : log'[i] \notin ErrorMsgs ]_vars

\* the second symlink is missing when its removal is due, the third is there
C13_Witness ==
    /\ op = "remove" /\ pc = "r_unlink" /\ idx = 2
    /\ links = {"motor_database.cfg"}
    /\ Has(Call("run_remove_routines autotune_tmc.py", {}))

\* the run's prompts were all answered yes and no copy of the example
\* config failed
AllAccepted(l) ==
    \A i \in DOMAIN l :
        /\ l[i].kind = "confirm" => l[i].ans
        /\ l[i].name # "Unable to create example config"
\* the six options of the registration section, as the code writes them
SixOptions ==
    << <<"type", "git_repo">>, <<"channel", "dev">>,
       <<"path", "~/klipper_tmc_autotune">>,
       <<"origin", "https://github.com/andrewmcgr/klipper_tmc_autotune">>,
       <<"managed_services", "klipper">>, <<"primary_branch", "main">> >>
\* what a successful, fully accepted Install leaves outside moonraker.conf
InstalledExceptRegistration ==
    /\ tmcaDir
    /\ links = ThreeSymlinks
    /\ \A k \in Range(klippers) : exampleCfg[k] # "none" /\ includeCnt[k] = 1
    /\ Has(Call("restart_all", Range(moonrakers)))
    /\ klippers # <<>> =>
        \E i, j \in DOMAIN log :
            /\ i < j
            /\ log[i] = Call("stop_all", Range(klippers))
            /\ log[j] = Call("start_all", Range(klippers))
    /\ log[Len(log)] = Msg("Klipper TMC Autotune installed successfully!")

C15_RemoveCompletes ==
    [][ op' = "remove" =>
        /\ exampleCfg' = exampleCfg
        /\ (pc = "r_finish" /\ pc' = "done") =>
            /\ outcome' = "success"
            /\ ~tmcaDir' /\ links' = {}
            /\ \A k \in Range(klippers) : includeCnt'[k] = 0
            /\ Has(Call("backup_moonraker_conf", {}))' <=> moonrakers # <<>>
            /\ Has(Call("remove_config_section " \o TMCA_MOONRAKER_UPDATER_NAME,
                        Range(moonrakers)))' <=> moonrakers # <<>>
            /\ \A m \in Range(moonrakers) : mrSection'[m] = NoSection
            /\ moonrakers = <<>> =>
                /\ \E i \in DOMAIN log' :
                    /\ log'[i] = Call("get_instances(Moonraker)", {})
                    /\ log'[i + 1] = Msg("Removing include from printer.cfg files ...")
                /\ \A i \in DOMAIN log' :
                    log'[i].kind = "confirm" => log'[i].name = StopQuestion
            /\ Has(Call("backup_printer_cfg", {}))'
            /\ Has(Call("remove_config_section " \o INCLUDE_SECTION, Range(klippers)))'
            /\ Has(Dialog("Manual edits to 'printer.cfg' may be required"))' ]_vars

C15_Witness ==
    /\ op = "remove" /\ pc = "done" /\ outcome = "success"
    /\ moonrakers = <<>> /\ klippers = <<1, 2>>
    /\ ~tmcaDir /\ links = {}
    /\ exampleCfg[1] = "user" /\ exampleCfg[2] = "example"
    /\ includeCnt[1] = 0 /\ includeCnt[2] = 0
    /\ Has(Call("remove_config_section " \o INCLUDE_SECTION, {1, 2}))

\* C16: no step of Update changes the symlinks in the Klipper extras
\* directory, a section of a primary config or of a moonraker.conf, or an
\* autotune_tmc.cfg, whatever is answered and whatever fails.
C16_UpdateFrame ==
    [][ op' = "update" => UNCHANGED <<links, includeCnt, mrSection, exampleCfg>> ]_vars

\* an Update that pulled over a partial installation and left it partial
C16_Witness ==
    /\ op = "update" /\ pc = "done" /\ outcome = "success"
    /\ Has(Call("backup_directory", {}))
    /\ Has(Call("git_pull_wrapper", {}))
    /\ links = {"motor_constants.py"}
    /\ klippers = <<1>> /\ includeCnt[1] = 0 /\ exampleCfg[1] = "none"
    /\ moonrakers = <<1>> /\ mrSection[1] = NoSection

HasIn(l, e) == \E i \in DOMAIN l : l[i] = e

\* C17: an iteration of the copy loop of Install's example-config step never
\* leaves the loop through the exception handler: after it, whatever the copy
\* did, the run is at the next iteration or at the printer.cfg backup and no
\* handler message is in the log; a copy that left no file logged its error
\* message for that instance. When the copy loop is over every instance has
\* had its status line and, unless its file existed, its copy call; when the
\* include loop is over every instance's primary config holds the include
\* section.
C17_CopyFailureContinues ==
    [][ op' = "install" =>
        /\ pc = "i_copy" =>
            LET k == kl_instances[idx] IN
            /\ pc' = AfterCopy(idx)
            /\ ~Raised'
            /\ HasIn(log', MsgFor("Create autotune_tmc.cfg in cfg_dir", k))
            /\ exampleCfg[k] = "none" => HasIn(log', Call("shutil.copy", {k}))
            /\ exampleCfg'[k] = "none" =>
                log'[Len(log')] = MsgFor("Unable to create example config", k)
            /\ \A j \in Range(kl_instances) \ {k} : exampleCfg'[j] = exampleCfg[j]
        /\ (pc = "i_copy" /\ pc' = "i_backup_cfg") =>
            \A k \in Range(kl_instances) :
                /\ HasIn(log', MsgFor("Create autotune_tmc.cfg in cfg_dir", k))
                /\ \/ HasIn(log', Call("shutil.copy", {k}))
                   \/ HasIn(log', MsgFor("File already exists! Skipping ...", k))
        /\ (pc = "i_include" /\ pc' = "i_mr") =>
            \A k \in Range(kl_instances) : includeCnt'[k] >= 1 ]_vars

\* the copy failed for the first instance and was made for the second
C17_Witness ==
    /\ op = "install" /\ pc = "done" /\ outcome = "success"
    /\ klippers = <<1, 2>>
    /\ \E i, j \in DOMAIN log :
        /\ i < j
        /\ log[i] = MsgFor("Unable to create example config", 1)
        /\ log[j] = Call("shutil.copy", {2})
    /\ exampleCfg[1] = "none" /\ exampleCfg[2] = "example"
    /\ includeCnt[1] >= 1 /\ includeCnt[2] >= 1

Backup == "backup_directory"
Pull == "git_pull_wrapper"
BackupQuestion == "Backup Klipper TMC Autotune directory before update?"

\* C18 as stated: in Update the backup of the install directory is made
\* before the Klipper instances are stopped.
C18_BackupBeforeStop ==
    op = "update" =>
        \A i, j \in DOMAIN log :
            (IsCall(log[i], Backup) /\ IsCall(log[j], "stop_all")) => i < j

\* C18: in Update the backup is asked for before the interlock and made after
\* it: the backup question comes before the attention dialog, the stop
\* question and every call but the discovery; a backup is made only when it
\* was confirmed, after the stop_all when there are instances, and before the
\* pull; the pull comes after the stop_all and before the start_all; a
\* confirmed backup is made in every Update that reaches the pull.
C18_UpdateOrder ==
    op = "update" =>
        /\ \A i, j \in DOMAIN log :
            /\ (log[i].kind = "confirm" /\ log[i].name = BackupQuestion
                /\ log[j].kind \in {"dialog", "call"}) => i < j
            /\ (log[i].kind = "confirm" /\ log[i].name = BackupQuestion
                /\ log[j].kind = "confirm" /\ i # j) =>
                    (i < j /\ log[j].name = StopQuestion)
            /\ (IsCall(log[i], "stop_all") /\ IsCall(log[j], Backup)) => i < j
            /\ (IsCall(log[i], "stop_all") /\ IsCall(log[j], Pull)) => i < j
            /\ (IsCall(log[i], Backup) /\ IsCall(log[j], Pull)) => i < j
            /\ (IsCall(log[i], Backup) /\ IsCall(log[j], "start_all")) => i < j
            /\ (IsCall(log[i], Pull) /\ IsCall(log[j], "start_all")) => i < j
        /\ \A j \in DOMAIN log :
            IsCall(log[j], Backup) =>
                /\ HasIn(log, Confirm(BackupQuestion, TRUE))
                /\ klippers # <<>> => HasIn(log, Call("stop_all", Range(klippers)))
        /\ \A j \in DOMAIN log :
            IsCall(log[j], Pull) =>
                /\ klippers # <<>> => HasIn(log, Call("stop_all", Range(klippers)))
                /\ HasIn(log, Confirm(BackupQuestion, TRUE)) => HasIn(log, Call(Backup, {}))
        /\ (pc = "done" /\ outcome \in {"success", "exception"} /\ klippers # <<>>) =>
                HasIn(log, Call("start_all", Range(klippers)))

C18_Witness ==
    /\ op = "update" /\ pc = "done" /\ outcome = "success"
    /\ klippers = <<1, 2>>
    /\ \E a, b, c, d, e \in DOMAIN log :
        /\ a < b /\ b < c /\ c < d /\ d < e
        /\ log[a] = Confirm(BackupQuestion, TRUE)
        /\ log[b] = Call("stop_all", {1, 2})
        /\ log[c] = Call(Backup, {})
        /\ log[d] = Call(Pull, {})
        /\ log[e] = Call("start_all", {1, 2})

\* calls that change nothing on disk and no service
NonMutating == {"get_instances(Klipper)", "get_instances(Moonraker)",
                "stop_all", "start_all"}

\* the order of the calls of the running operation
StopMutateStart ==
    /\ \A i \in DOMAIN log :
        (log[i].kind = "call" /\ log[i].name \notin NonMutating) =>
            /\ \E j \in 1..(i - 1) : log[j] = Call("stop_all", Range(klippers))
            /\ \A j \in 1..(i - 1) : ~IsCall(log[j], "start_all")
    /\ \A i, j \in DOMAIN log :
        (IsCall(log[i], "start_all") /\ IsCall(log[j], "start_all")) => i = j
    /\ \A i \in DOMAIN log :
        IsCall(log[i], "start_all") =>
            \E j \in 1..(i - 1) :
                IsCall(log[j], "stop_all") /\ log[j].insts = log[i].insts

\* C19: in every run of Install, Update and Remove with at least one Klipper
\* instance, every call other than the discoveries, stop_all and start_all
\* comes after the stop_all of all instances and before any start_all;
\* start_all is called at most once, on the set an earlier stop_all of the
\* run stopped; and at every position of the mutation phase all instances
\* are stopped.
C19_MutationsBetweenStopAndStart ==
    (klippers # <<>> /\ op # "none") =>
        /\ StopMutateStart
        /\ pc \notin PrePhase \cup {"idle", "done"} => stopped = Range(klippers)
        /\ stopped # {} => pc \notin PrePhase \cup {"idle", "done"}

\* a Remove that stopped both instances, removed everything and started them
C19_Witness ==
    /\ op = "remove" /\ pc = "done" /\ outcome = "success"
    /\ klippers = <<1, 2>> /\ moonrakers = <<1>>
    /\ stopped = {}
    /\ \E a, b, c, d \in DOMAIN log :
        /\ a < b /\ b < c /\ c < d
        /\ log[a] = Call("stop_all", {1, 2})
        /\ log[b] = Call("run_remove_routines " \o TMCA_DIR, {})
        /\ log[c] = Call("remove_config_section " \o INCLUDE_SECTION, {1, 2})
        /\ log[d] = Call("start_all", {1, 2})
====
